---- MODULE Spec2Model ----
(***************************************************************************)
(* Model of the inventory / point-of-sale API of src/src/index.js: the     *)
(* product catalogue, the stock ledger, the create-sale workflow, the      *)
(* invoice sequence and the payment application, as request handlers that *)
(* interleave at their await points over one transactional store.          *)
(*                                                                         *)
(* Store semantics (PostgreSQL behind Prisma, read committed): a           *)
(* statement outside a transaction is atomic and sees committed rows; the  *)
(* writes of an interactive transaction become visible at its commit; an   *)
(* UPDATE takes the row's lock until the transaction ends; nextval is not  *)
(* rolled back, but a sequence created inside a transaction exists for the *)
(* others only once that transaction commits.                              *)
(***************************************************************************)
EXTENDS Integers, Sequences, FiniteSets, TLC

\* ---------------------------------------------------------------- bounds
MaxStock == 2       \* largest stockQty a product request may set
MaxPrice == 1       \* largest sellPrice a product request may set
MaxQty == 2         \* largest qty of a sale line or of a stock-in
MaxLines == 2       \* longest items list of a create-sale request
MaxPaid == 2        \* largest amount of a payment or of an initial amountPaid
MaxSeq == 2         \* create-sale transactions begun
MaxPayments == 2    \* Payment rows in the table when an add-payment is accepted
MaxMoves == 2       \* StockMovement rows written by add-stock requests
MaxTicks == 1       \* month changes of the wall clock
MaxAudits == 2      \* LoginAudit rows written by login requests

Reqs == {"r1", "r2"}            \* request handlers that can be in flight together
Products == {"p1", "p2"}
Methods == {"Tunai", "Transfer", "QRIS"}
SaleIds == 1..MaxSeq
NoRow == [exists |-> FALSE]

\* usernames and passwords that login requests carry; the stored password
\* stands for its bcrypt hash, which only the same password matches
Usernames == {"admin", "kasir"}
Passwords == {"right", "wrong"}

\* the User table after the admin seed and one POST /users of a VIEWER
InitUsers ==
  [u \in Usernames |->
     [exists |-> TRUE, id |-> u, role |-> IF u = "admin" THEN "ADMIN" ELSE "VIEWER",
      password |-> "right"]]

VARIABLES
  product,        \* Product table: id -> row
  sale,           \* Sale table: sequence of committed rows
  saleItem,       \* SaleItem table: sequence of committed rows
  payment,        \* Payment table: sequence of committed rows
  stockMovement,  \* StockMovement table: sequence of committed rows
  invSeq,         \* the committed sequence inv_global_seq
  saleIdGen,      \* ids generated for Sale rows so far
  now,            \* wall clock: year, month, and the month changes so far
  user,           \* User table: username -> row
  loginAudit,     \* LoginAudit table: sequence of committed rows
  pc,             \* per request: position in its handler
  payload,        \* per request: the parsed request body
  local,          \* per request: the handler's local variables
  resp            \* per request: the HTTP answer of the last request

vars == <<product, sale, saleItem, payment, stockMovement, invSeq,
          saleIdGen, now, user, loginAudit, pc, payload, local, resp>>

store == <<product, sale, saleItem, payment, stockMovement>>

\* ------------------------------------------------------- pure functions
RECURSIVE SumSeq(_)
SumSeq(s) == IF s = <<>> THEN 0 ELSE Head(s) + SumSeq(Tail(s))

Range(s) == {s[i] : i \in 1..Len(s)}

\* String.prototype.padStart(n, c)
RECURSIVE padStart(_, _, _)
padStart(s, n, c) == IF Len(s) >= n THEN s ELSE padStart(c \o s, n, c)

\* calcStatus with the comparison of paid and total strict
calcStatusStrict(paid, total) ==
  IF paid > total THEN "Lunas" ELSE IF paid > 0 THEN "Sebagian" ELSE "Piutang"

\* calcStatus that takes only an exact payment for a settled sale
calcStatusExact(paid, total) ==
  IF paid = total THEN "Lunas" ELSE IF paid > 0 THEN "Sebagian" ELSE "Piutang"

\* calcStatus = (paid, total) => paid >= total ? "Lunas" : paid > 0 ? "Sebagian" : "Piutang"
calcStatus(paid, total) ==
  IF paid >= total THEN "Lunas" ELSE IF paid > 0 THEN "Sebagian" ELSE "Piutang"

\* `${now.getFullYear()}${String(now.getMonth() + 1).padStart(2, "0")}`
period(t) == ToString(t.year) \o padStart(ToString(t.month), 2, "0")

\* `${prefix}${String(seq).padStart(6, "0")}` with prefix = `INV-${period}-`
invoiceNoOf(t, seq) == ("INV-" \o period(t) \o "-") \o padStart(ToString(seq), 6, "0")

\* calcItems with the qty left out of the lineTotal
calcItemsNoQty(items, rows) ==
  [k \in 1..Len(items) |->
     [productId |-> items[k].productId, qty |-> items[k].qty,
      unitPrice |-> rows[items[k].productId].sellPrice,
      lineTotal |-> rows[items[k].productId].sellPrice]]

\* calcItems: payload.items.map(i => ({...i, unitPrice, lineTotal: unitPrice * i.qty}))
\* over the product rows read by findMany
calcItems(items, rows) ==
  [k \in 1..Len(items) |->
     [productId |-> items[k].productId, qty |-> items[k].qty,
      unitPrice |-> rows[items[k].productId].sellPrice,
      lineTotal |-> rows[items[k].productId].sellPrice * items[k].qty]]

\* calcItems.reduce((a, i) => a + i.lineTotal, 0)
grandTotalOf(calc) == SumSeq([k \in 1..Len(calc) |-> calc[k].lineTotal])

\* findMany({ where: { id: { in: ids } } }): the distinct existing rows named
foundProducts(items, rows) ==
  {p \in Products : rows[p].exists /\ \E k \in 1..Len(items) : items[k].productId = p}

\* the validation without the stock check
saleValidationNoStock(items, rows) ==
  IF Cardinality(foundProducts(items, rows)) # Len(items) THEN "Produk tidak ditemukan."
  ELSE "ok"

\* the validation of POST /sales before its transaction: "ok" or the error thrown
saleValidation(items, rows) ==
  IF Cardinality(foundProducts(items, rows)) # Len(items) THEN "Produk tidak ditemukan."
  ELSE IF \E k \in 1..Len(items) : rows[items[k].productId].stockQty < items[k].qty
       THEN "Stok tidak cukup"
       ELSE "ok"

\* sale.payments.reduce((a, p) => a + p.amount, 0) over the committed rows
paidOf(sid, pays) ==
  SumSeq([k \in 1..Len(pays) |-> IF pays[k].saleId = sid THEN pays[k].amount ELSE 0])

saleRow(sid, sales) == CHOOSE s \in Range(sales) : s.id = sid

\* ------------------------------------------------ transactions in flight
SalePcs == {"sale_seq", "sale_create", "sale_lines", "sale_commit"}
StockPcs == {"stock_update", "stock_commit"}
PayPcs == {"pay_write", "pay_commit"}
TxPcs == SalePcs \cup StockPcs \cup PayPcs
Free(r) == pc[r] \in {"idle", "done"}

\* the sale lines whose product.update the transaction of r has executed
linesDone(r) == IF pc[r] \in {"sale_lines", "sale_commit"} THEN local[r].line ELSE 0

\* row lock of Product p taken by an UPDATE of r's open transaction
holdsProduct(r, p) ==
  \/ \E k \in 1..linesDone(r) : local[r].calcItems[k].productId = p
  \/ pc[r] = "stock_commit" /\ payload[r].productId = p
productLocked(p) == \E r \in Reqs : holdsProduct(r, p)

\* row lock of a Sale taken by tx.sale.update of r's open transaction
saleLocked(sid) == \E r \in Reqs : pc[r] = "pay_commit" /\ payload[r].saleId = sid

\* r's transaction has created inv_global_seq and not yet committed it
ownsSeq(r) == pc[r] \in (SalePcs \ {"sale_seq"}) /\ local[r].ownSeq

Idle == [kind |-> "none"]
NoLocal == [none |-> TRUE]
NoResp == [code |-> 0, error |-> ""]

\* the request body is parsed and the handler waits for its first query
receive(r, body, at) ==
  /\ Free(r)
  /\ payload' = [payload EXCEPT ![r] = body]
  /\ pc' = [pc EXCEPT ![r] = at]
  /\ resp' = [resp EXCEPT ![r] = NoResp]
  /\ local' = [local EXCEPT ![r] = NoLocal]

\* res.status(code).json(...) and the end of the handler
finish(r, code, error) ==
  /\ pc' = [pc EXCEPT ![r] = "done"]
  /\ resp' = [resp EXCEPT ![r] = [code |-> code, error |-> error]]
  /\ payload' = [payload EXCEPT ![r] = [kind |-> payload[r].kind]]
  /\ local' = [local EXCEPT ![r] = NoLocal]

\* ---------------------------------------------------------------- Init
InitStore ==
  /\ sale = <<>>
  /\ saleItem = <<>>
  /\ payment = <<>>
  /\ stockMovement = <<>>
  /\ invSeq = [exists |-> FALSE, last |-> 0]
  /\ saleIdGen = 0
  /\ now = [year |-> 2025, month |-> 12, ticks |-> 0]
  /\ user = InitUsers
  /\ loginAudit = <<>>
  /\ pc = [r \in Reqs |-> "idle"]
  /\ payload = [r \in Reqs |-> Idle]
  /\ local = [r \in Reqs |-> NoLocal]
  /\ resp = [r \in Reqs |-> NoResp]

\* the month of new Date() moves on
Tick ==
  /\ now.ticks < MaxTicks
  /\ now' = IF now.month = 12
            THEN [year |-> now.year + 1, month |-> 1, ticks |-> now.ticks + 1]
            ELSE [year |-> now.year, month |-> now.month + 1, ticks |-> now.ticks + 1]
  /\ UNCHANGED <<store, invSeq, saleIdGen, user, loginAudit, pc, payload, local, resp>>

\* ------------------------------------------------------------- products
\* POST /api/v1/products: one INSERT of the parsed body, isActive forced true
ProductCreate(Ids, Stocks, Prices) ==
  \E p \in Ids, stock \in Stocks, price \in Prices :
    /\ ~product[p].exists
    /\ product' = [product EXCEPT ![p] =
                     [exists |-> TRUE, stockQty |-> stock, sellPrice |-> price,
                      isActive |-> TRUE]]
    /\ UNCHANGED <<sale, saleItem, payment, stockMovement, invSeq, saleIdGen, now, user, loginAudit,
                   pc, payload, local, resp>>

\* bodies of PUT /api/v1/products/:id: the body is written to the row as it is
PutPrice == [field : {"sellPrice"}, value : 0..MaxPrice]
PutStock == [field : {"stockQty"}, value : 0..MaxStock]
PutActive == [field : {"isActive"}, value : BOOLEAN]

\* PUT /api/v1/products/:id: one UPDATE, data = the request body
ProductPut(Ids, Bodies) ==
  \E p \in Ids, b \in Bodies :
    /\ product[p].exists
    /\ ~productLocked(p)
    /\ product' = [product EXCEPT ![p] =
                     [exists |-> TRUE,
                      stockQty |-> IF b.field = "stockQty" THEN b.value ELSE @.stockQty,
                      sellPrice |-> IF b.field = "sellPrice" THEN b.value ELSE @.sellPrice,
                      isActive |-> IF b.field = "isActive" THEN b.value ELSE @.isActive]]
    /\ UNCHANGED <<sale, saleItem, payment, stockMovement, invSeq, saleIdGen, now, user, loginAudit,
                   pc, payload, local, resp>>

\* DELETE /api/v1/products/:id: one UPDATE that sets isActive to false (soft
\* delete); the update of a missing row throws and is answered 400
ProductDelete(r) ==
  \E p \in Products :
    /\ Free(r)
    /\ ~productLocked(p)
    /\ product' = IF product[p].exists
                  THEN [product EXCEPT ![p].isActive = FALSE]
                  ELSE product
    /\ pc' = [pc EXCEPT ![r] = "done"]
    /\ payload' = [payload EXCEPT ![r] = [kind |-> "delete", productId |-> p]]
    /\ local' = [local EXCEPT ![r] = NoLocal]
    /\ resp' = [resp EXCEPT ![r] =
         IF product[p].exists THEN [code |-> 200, error |-> ""]
         ELSE [code |-> 400, error |-> "Record to update not found."]]
    /\ UNCHANGED <<sale, saleItem, payment, stockMovement, invSeq, saleIdGen, now, user, loginAudit>>

\* a listing without the isActive condition
ProductListAll(r) ==
  /\ Free(r)
  /\ pc' = [pc EXCEPT ![r] = "done"]
  /\ payload' = [payload EXCEPT ![r] = [kind |-> "list"]]
  /\ local' = [local EXCEPT ![r] = NoLocal]
  /\ resp' = [resp EXCEPT ![r] =
       [code |-> 200, error |-> "", list |-> {p \in Products : product[p].exists}]]
  /\ UNCHANGED <<store, invSeq, saleIdGen, now, user, loginAudit>>

\* GET /api/v1/products: findMany({ where: { isActive: true } }), answered as
\* the list of the rows found (no q filter)
ProductList(r) ==
  /\ Free(r)
  /\ pc' = [pc EXCEPT ![r] = "done"]
  /\ payload' = [payload EXCEPT ![r] = [kind |-> "list"]]
  /\ local' = [local EXCEPT ![r] = NoLocal]
  /\ resp' = [resp EXCEPT ![r] =
       [code |-> 200, error |-> "",
        list |-> {p \in Products : product[p].exists /\ product[p].isActive}]]
  /\ UNCHANGED <<store, invSeq, saleIdGen, now, user, loginAudit>>

\* ------------------------------------------------------------ add-stock
\* POST /api/v1/products/:id/add-stock: the body { qty } is parsed
AddStockReceive(r) ==
  \E p \in Products, q \in 1..MaxQty :
    /\ receive(r, [kind |-> "add-stock", productId |-> p, qty |-> q], "stock_read")
    /\ UNCHANGED <<store, invSeq, saleIdGen, now, user, loginAudit>>

\* findUnique; 404 when the product is missing, else the transaction begins
AddStockFind(r) ==
  /\ pc[r] = "stock_read"
  /\ IF ~product[payload[r].productId].exists
     THEN finish(r, 404, "Produk tidak ditemukan")
     ELSE /\ Len(SelectSeq(stockMovement, LAMBDA m : m.type = "IN"))
               + Cardinality({o \in Reqs : pc[o] \in StockPcs}) < MaxMoves
          /\ pc' = [pc EXCEPT ![r] = "stock_update"]
          /\ UNCHANGED <<payload, local, resp>>
  /\ UNCHANGED <<store, invSeq, saleIdGen, now, user, loginAudit>>

\* tx.product.update({ stockQty: { increment: qty } }) and tx.stockMovement.create
AddStockUpdate(r) ==
  /\ pc[r] = "stock_update"
  /\ ~productLocked(payload[r].productId)
  /\ pc' = [pc EXCEPT ![r] = "stock_commit"]
  /\ UNCHANGED <<store, invSeq, saleIdGen, now, user, loginAudit, payload, local, resp>>

\* a commit of add-stock that loses the movement row
AddStockCommitNoMove(r) ==
  /\ pc[r] = "stock_commit"
  /\ product' = [product EXCEPT ![payload[r].productId].stockQty = @ + payload[r].qty]
  /\ finish(r, 200, "")
  /\ UNCHANGED <<sale, saleItem, payment, stockMovement, invSeq, saleIdGen, now, user, loginAudit>>

\* commit of the add-stock transaction
AddStockCommit(r) ==
  /\ pc[r] = "stock_commit"
  /\ product' = [product EXCEPT ![payload[r].productId].stockQty = @ + payload[r].qty]
  /\ stockMovement' = Append(stockMovement,
       [productId |-> payload[r].productId, type |-> "IN", qty |-> payload[r].qty,
        reason |-> "StockIn", refId |-> 0])
  /\ finish(r, 200, "")
  /\ UNCHANGED <<sale, saleItem, payment, invSeq, saleIdGen, now, user, loginAudit>>

\* ---------------------------------------------------------- create sale
RECURSIVE SeqsUpTo(_, _)
SeqsUpTo(S, n) ==
  IF n = 0 THEN {<<>>}
  ELSE LET shorter == SeqsUpTo(S, n - 1)
       IN shorter \cup {Append(q, x) : q \in {t \in shorter : Len(t) = n - 1}, x \in S}

\* the items lists a request may carry (zod: an array of {productId, qty > 0})
ItemLists == SeqsUpTo([productId : Products, qty : 1..MaxQty], MaxLines)

\* a nextval that hands out the last value again
nextvalStuck(s) == [exists |-> TRUE, last |-> IF s.last = 0 THEN 1 ELSE s.last]

\* SELECT nextval('inv_global_seq') on the sequence s: the sequence afterwards
nextval(s) == [exists |-> TRUE, last |-> s.last + 1]

\* POST /api/v1/sales: the body { items, amountPaid, method } is parsed
CreateSaleReceive(r, Bodies) ==
  \E b \in Bodies :
    /\ receive(r, [kind |-> "sale", items |-> b.items, amountPaid |-> b.amountPaid,
                   method |-> b.method], "sale_read")
    /\ UNCHANGED <<store, invSeq, saleIdGen, now, user, loginAudit>>

\* findMany, the length check, calcItems, grandTotal, status; a thrown error is
\* answered 400, else the transaction begins
CreateSaleValidate(r) ==
  /\ pc[r] = "sale_read"
  /\ LET v == saleValidation(payload[r].items, product)
         calc == calcItems(payload[r].items, product)
     IN IF v # "ok"
        THEN finish(r, 400, v) /\ UNCHANGED saleIdGen
        ELSE /\ saleIdGen < MaxSeq
             /\ saleIdGen' = saleIdGen + 1
             /\ pc' = [pc EXCEPT ![r] = "sale_seq"]
             /\ local' = [local EXCEPT ![r] =
                  [calcItems |-> calc, grandTotal |-> grandTotalOf(calc),
                   status |-> calcStatus(payload[r].amountPaid, grandTotalOf(calc)),
                   saleId |-> saleIdGen + 1, seq |-> 0, invoiceNo |-> "",
                   ownSeq |-> FALSE, line |-> 0]]
             /\ UNCHANGED <<payload, resp>>
  /\ UNCHANGED <<store, invSeq, now, user, loginAudit>>

\* nextInvoiceNoSeq(tx): CREATE SEQUENCE IF NOT EXISTS, nextval, format.
\* A sequence created here is private to the transaction until it commits;
\* a second creator waits for the first one to end.
nextInvoiceNoSeq(r) ==
  /\ pc[r] = "sale_seq"
  /\ ~\E o \in Reqs \ {r} : ownsSeq(o)
  /\ LET mine == ~invSeq.exists
         after == nextval(invSeq)
     IN /\ invSeq' = IF mine THEN invSeq ELSE after
        /\ local' = [local EXCEPT ![r].seq = after.last,
                                  ![r].invoiceNo = invoiceNoOf(now, after.last),
                                  ![r].ownSeq = mine]
  /\ pc' = [pc EXCEPT ![r] = "sale_create"]
  /\ UNCHANGED <<store, saleIdGen, now, user, loginAudit, payload, resp>>

\* tx.sale.create with the nested items; the unique index Sale_invoiceNo_key
\* answers P2002, which the handler turns into 409
SaleCreate(r) ==
  /\ pc[r] = "sale_create"
  /\ ~\E o \in Reqs \ {r} : pc[o] \in {"sale_lines", "sale_commit"}
                            /\ local[o].invoiceNo = local[r].invoiceNo
  /\ IF \E s \in Range(sale) : s.invoiceNo = local[r].invoiceNo
     THEN finish(r, 409, "Nomor invoice bentrok, silakan coba lagi.")
     ELSE /\ pc' = [pc EXCEPT ![r] = "sale_lines"]
          /\ UNCHANGED <<payload, local, resp>>
  /\ UNCHANGED <<store, invSeq, saleIdGen, now, user, loginAudit>>

\* one turn of the loop over calcItems: tx.product.update({ decrement }) and
\* tx.stockMovement.create
SaleLine(r) ==
  /\ pc[r] = "sale_lines"
  /\ local[r].line < Len(local[r].calcItems)
  /\ ~\E o \in Reqs \ {r} :
        holdsProduct(o, local[r].calcItems[local[r].line + 1].productId)
  /\ local' = [local EXCEPT ![r].line = @ + 1]
  /\ UNCHANGED <<store, invSeq, saleIdGen, now, user, loginAudit, pc, payload, resp>>

\* if (payload.amountPaid > 0) tx.payment.create
SaleInitialPayment(r) ==
  /\ pc[r] = "sale_lines"
  /\ local[r].line = Len(local[r].calcItems)
  /\ payload[r].amountPaid > 0
  /\ pc' = [pc EXCEPT ![r] = "sale_commit"]
  /\ UNCHANGED <<store, invSeq, saleIdGen, now, user, loginAudit, payload, local, resp>>

\* a decrement that stops after the first line
decrementedFirst(p, qty, calc, n) ==
  qty - SumSeq([k \in 1..(IF n > 1 THEN 1 ELSE n) |->
                  IF calc[k].productId = p THEN calc[k].qty ELSE 0])

\* stockQty: { decrement: i.qty } for the first n lines of calc, on the row of p
decremented(p, qty, calc, n) ==
  qty - SumSeq([k \in 1..n |-> IF calc[k].productId = p THEN calc[k].qty ELSE 0])

\* the rows the transaction of r has written after n lines, with (pay) or
\* without its initial payment, applied to the tables
saleWrites(r, n, pay) ==
  LET l == local[r]
      calc == l.calcItems
  IN /\ sale' = Append(sale,
           [id |-> l.saleId, invoiceNo |-> l.invoiceNo, grandTotal |-> l.grandTotal,
            amountPaid |-> payload[r].amountPaid, paymentStatus |-> l.status])
     /\ saleItem' = saleItem \o
           [k \in 1..Len(calc) |->
              [saleId |-> l.saleId, productId |-> calc[k].productId, qty |-> calc[k].qty,
               unitPrice |-> calc[k].unitPrice, lineTotal |-> calc[k].lineTotal]]
     /\ product' = [p \in Products |->
           IF product[p].exists
           THEN [product[p] EXCEPT !.stockQty = decremented(p, @, calc, n)]
           ELSE product[p]]
     /\ stockMovement' = stockMovement \o
           [k \in 1..n |->
              [productId |-> calc[k].productId, type |-> "OUT", qty |-> calc[k].qty,
               reason |-> "Sale", refId |-> l.saleId]]
     /\ payment' = IF pay
                   THEN Append(payment, [saleId |-> l.saleId,
                                         amount |-> payload[r].amountPaid,
                                         method |-> payload[r].method])
                   ELSE payment

\* a commit of the create-sale transaction without its initial payment
SaleCommitNoPay(r) ==
  /\ \/ pc[r] = "sale_commit"
     \/ /\ pc[r] = "sale_lines"
        /\ local[r].line = Len(local[r].calcItems)
        /\ payload[r].amountPaid = 0
  /\ saleWrites(r, Len(local[r].calcItems), FALSE)
  /\ invSeq' = IF local[r].ownSeq THEN nextval(invSeq) ELSE invSeq
  /\ finish(r, 200, "")
  /\ UNCHANGED <<saleIdGen, now, user, loginAudit>>

\* commit of the create-sale transaction: everything it wrote becomes visible
SaleCommit(r) ==
  /\ \/ pc[r] = "sale_commit"
     \/ /\ pc[r] = "sale_lines"
        /\ local[r].line = Len(local[r].calcItems)
        /\ payload[r].amountPaid = 0
  /\ saleWrites(r, Len(local[r].calcItems), payload[r].amountPaid > 0)
  /\ invSeq' = IF local[r].ownSeq THEN nextval(invSeq) ELSE invSeq
  /\ finish(r, 200, "")
  /\ UNCHANGED <<saleIdGen, now, user, loginAudit>>

\* ------------------------------------------------------------- payments
\* a body schema that lets an amount of 0 through
PayReceiveZero(r, Bodies) ==
  \E b \in Bodies :
    /\ receive(r, [kind |-> "payment", saleId |-> b.saleId, amount |-> 0,
                   method |-> b.method], "pay_read")
    /\ UNCHANGED <<store, invSeq, saleIdGen, now, user, loginAudit>>

\* POST /api/v1/payments: the body { saleId, amount, method } is parsed
PayReceive(r, Bodies) ==
  \E b \in Bodies :
    /\ receive(r, [kind |-> "payment", saleId |-> b.saleId, amount |-> b.amount,
                   method |-> b.method], "pay_read")
    /\ UNCHANGED <<store, invSeq, saleIdGen, now, user, loginAudit>>

\* the due computed without the payments made so far
dueIgnoringPaid(s, pays) == s.grandTotal

\* due = sale.grandTotal - paid
dueOf(s, pays) == s.grandTotal - paidOf(s.id, pays)

\* a handler that begins the payment transaction without looking the sale up
PayCheckNoLookup(r) ==
  /\ pc[r] = "pay_read"
  /\ Len(payment) + Cardinality({o \in Reqs : pc[o] \in PayPcs}) < MaxPayments
  /\ pc' = [pc EXCEPT ![r] = "pay_write"]
  /\ local' = [local EXCEPT ![r] = [paid |-> 0, grandTotal |-> 0]]
  /\ UNCHANGED <<payload, resp, store, invSeq, saleIdGen, now, user, loginAudit>>

\* findUnique with the payments, 404; paid, due, the overpayment check, 400;
\* else the transaction begins
PayCheck(r) ==
  /\ pc[r] = "pay_read"
  /\ IF ~\E s \in Range(sale) : s.id = payload[r].saleId
     THEN finish(r, 404, "Sale not found")
     ELSE LET s == saleRow(payload[r].saleId, sale)
          IN IF payload[r].amount > dueOf(s, payment)
             THEN finish(r, 400, "Nominal melebihi sisa tagihan")
             ELSE /\ Len(payment) + Cardinality({o \in Reqs : pc[o] \in PayPcs})
                       < MaxPayments
                  /\ pc' = [pc EXCEPT ![r] = "pay_write"]
                  /\ local' = [local EXCEPT ![r] =
                       [paid |-> paidOf(s.id, payment), grandTotal |-> s.grandTotal]]
                  /\ UNCHANGED <<payload, resp>>
  /\ UNCHANGED <<store, invSeq, saleIdGen, now, user, loginAudit>>

\* tx.payment.create and tx.sale.update, which takes the sale's row lock
PayWrite(r) ==
  /\ pc[r] = "pay_write"
  /\ ~saleLocked(payload[r].saleId)
  /\ pc' = [pc EXCEPT ![r] = "pay_commit"]
  /\ UNCHANGED <<store, invSeq, saleIdGen, now, user, loginAudit, payload, local, resp>>

\* a newPaid that forgets what was paid before
newPaidLost(paid, amount) == amount

\* newPaid = paid + payload.amount
newPaidOf(paid, amount) == paid + amount

\* newStatus = newPaid >= sale.grandTotal ? "Lunas" : "Sebagian"
newStatusOf(newPaid, total) == IF newPaid >= total THEN "Lunas" ELSE "Sebagian"

\* a commit of the payment that also lowers the sale's grandTotal to what is due
PayCommitRetotal(r) ==
  /\ pc[r] = "pay_commit"
  /\ LET newPaid == newPaidOf(local[r].paid, payload[r].amount)
         newStatus == newStatusOf(newPaid, local[r].grandTotal)
     IN /\ payment' = Append(payment, [saleId |-> payload[r].saleId,
                                       amount |-> payload[r].amount,
                                       method |-> payload[r].method])
        /\ sale' = [k \in 1..Len(sale) |->
                      IF sale[k].id = payload[r].saleId
                      THEN [sale[k] EXCEPT !.amountPaid = newPaid,
                                           !.paymentStatus = newStatus,
                                           !.grandTotal = @ - newPaid]
                      ELSE sale[k]]
  /\ finish(r, 200, "")
  /\ UNCHANGED <<product, saleItem, stockMovement, invSeq, saleIdGen, now, user, loginAudit>>

\* commit of the payment transaction
PayCommit(r) ==
  /\ pc[r] = "pay_commit"
  /\ LET newPaid == newPaidOf(local[r].paid, payload[r].amount)
         newStatus == newStatusOf(newPaid, local[r].grandTotal)
     IN /\ payment' = Append(payment, [saleId |-> payload[r].saleId,
                                       amount |-> payload[r].amount,
                                       method |-> payload[r].method])
        /\ sale' = [k \in 1..Len(sale) |->
                      IF sale[k].id = payload[r].saleId
                      THEN [sale[k] EXCEPT !.amountPaid = newPaid,
                                           !.paymentStatus = newStatus]
                      ELSE sale[k]]
  /\ finish(r, 200, "")
  /\ UNCHANGED <<product, saleItem, stockMovement, invSeq, saleIdGen, now, user, loginAudit>>

\* the same failure when the statements ran outside a transaction: the rows
\* written so far stay
TxFailNoRollback(r) ==
  /\ pc[r] \in TxPcs
  /\ IF pc[r] \in {"sale_lines", "sale_commit"}
     THEN saleWrites(r, local[r].line, pc[r] = "sale_commit")
     ELSE UNCHANGED store
  /\ finish(r, 400, "transaction failed")
  /\ UNCHANGED <<invSeq, saleIdGen, now, user, loginAudit>>

\* a statement of an open transaction throws (connection lost, timeout,
\* deadlock victim): $transaction rolls back and the catch block answers 400
TxFail(r) ==
  /\ pc[r] \in TxPcs
  /\ finish(r, 400, "transaction failed")
  /\ UNCHANGED <<store, invSeq, saleIdGen, now, user, loginAudit>>

\* the transaction of r waits for the row lock of the product of its next
\* line, which the open transaction of o holds
waitsFor(r, o) ==
  /\ pc[r] = "sale_lines"
  /\ local[r].line < Len(local[r].calcItems)
  /\ holdsProduct(o, local[r].calcItems[local[r].line + 1].productId)

\* a database that leaves two transactions waiting for each other
DeadlockUndetected(r) ==
  /\ FALSE
  /\ UNCHANGED vars

\* two transactions wait for each other's row lock: the database detects the
\* deadlock and aborts one of them, whose tx.product.update throws;
\* $transaction rolls back and the catch block answers 400
DeadlockAbort(r) ==
  /\ \E o \in Reqs \ {r} : waitsFor(r, o) /\ waitsFor(o, r)
  /\ finish(r, 400, "deadlock detected")
  /\ UNCHANGED <<store, invSeq, saleIdGen, now, user, loginAudit>>

\* ------------------------------------------------------------ sales list
\* the values of ?status= that are tried; "" is an absent (or empty) parameter
StatusQueries == {"", "open", "paid", "Piutang"}

\* every sale, whatever its status
saleWhereAll(status, row) == TRUE

\* the where clause built from req.query.status
saleWhere(status, row) ==
  IF status = "" THEN TRUE
  ELSE IF status = "open" THEN row.paymentStatus \in {"Piutang", "Sebagian"}
  ELSE row.paymentStatus = "Lunas"

\* GET /api/v1/sales: prisma.sale.findMany({ where }), answered as the rows found
SaleList(r) ==
  \E status \in StatusQueries :
    /\ Free(r)
    /\ pc' = [pc EXCEPT ![r] = "done"]
    /\ payload' = [payload EXCEPT ![r] = [kind |-> "sales", status |-> status]]
    /\ local' = [local EXCEPT ![r] = NoLocal]
    /\ resp' = [resp EXCEPT ![r] =
         [code |-> 200, error |-> "",
          list |-> {sale[k].id : k \in {j \in 1..Len(sale) : saleWhere(status, sale[j])}}]]
    /\ UNCHANGED <<store, invSeq, saleIdGen, now, user, loginAudit>>

\* ---------------------------------------------------------------- login
LoginPcs == {"login_find", "login_audit"}
InvalidCredentials == [code |-> 401, error |-> "Invalid credentials"]

\* POST /api/v1/auth/login of index.js or worker.js: the body
\* { username, password } is read
LoginReceive(r) ==
  \E app \in {"index", "worker"}, u \in Usernames, pw \in Passwords :
    /\ receive(r, [kind |-> "login", app |-> app, username |-> u, password |-> pw],
               "login_find")
    /\ UNCHANGED <<store, invSeq, saleIdGen, now, user, loginAudit>>

\* the user is looked up by username and the password compared with the hash;
\* worker.js answers 401 at once when there is no such user
LoginFind(r) ==
  /\ pc[r] = "login_find"
  /\ LET row == user[payload[r].username]
     IN IF payload[r].app = "worker" /\ ~row.exists
        THEN finish(r, 401, "Invalid credentials")
        ELSE /\ Len(loginAudit) + Cardinality({o \in Reqs : pc[o] = "login_audit"})
                  < MaxAudits
             /\ pc' = [pc EXCEPT ![r] = "login_audit"]
             /\ local' = [local EXCEPT ![r] =
                  [userId |-> IF row.exists THEN row.id ELSE "null",
                   role |-> IF row.exists THEN row.role ELSE "null",
                   ok |-> row.exists /\ row.password = payload[r].password]]
             /\ UNCHANGED <<payload, resp>>
  /\ UNCHANGED <<store, invSeq, saleIdGen, now, user, loginAudit>>

\* after the audit attempt: 401 without a user or with a wrong password, else
\* the signed token with the user's role
loginAnswer(r) ==
  /\ pc' = [pc EXCEPT ![r] = "done"]
  /\ resp' = [resp EXCEPT ![r] =
       IF local[r].ok
       THEN [code |-> 200, error |-> "", token |-> local[r].role]
       ELSE InvalidCredentials]
  /\ payload' = [payload EXCEPT ![r] = [kind |-> payload[r].kind]]
  /\ local' = [local EXCEPT ![r] = NoLocal]

\* loginAudit.create succeeds (its userId, when set, must name a user: foreign
\* key LoginAudit_userId_fkey), then the answer
LoginAuditWrite(r) ==
  /\ pc[r] = "login_audit"
  /\ \/ local[r].userId = "null"
     \/ \E u \in Usernames : user[u].exists /\ user[u].id = local[r].userId
  /\ loginAudit' = Append(loginAudit,
       [userId |-> local[r].userId, username |-> payload[r].username,
        role |-> local[r].role])
  /\ loginAnswer(r)
  /\ UNCHANGED <<store, invSeq, saleIdGen, now, user>>

\* an audit failure that reaches the outer catch block
LoginAuditFailThrows(r) ==
  /\ pc[r] = "login_audit"
  /\ finish(r, 400, "audit failed")
  /\ UNCHANGED <<store, invSeq, saleIdGen, now, user, loginAudit>>

\* loginAudit.create throws: try { ... } catch (_) {} swallows it, then the answer
LoginAuditFail(r) ==
  /\ pc[r] = "login_audit"
  /\ loginAnswer(r)
  /\ UNCHANGED <<store, invSeq, saleIdGen, now, user, loginAudit>>

\* DELETE /api/v1/users/:id: the row is deleted, and the foreign key
\* LoginAudit_userId_fkey (ON DELETE SET NULL) clears the userId of its audits
UserDelete ==
  \E u \in Usernames :
    /\ user[u].exists
    /\ user' = [user EXCEPT ![u] = NoRow]
    /\ loginAudit' = [k \in 1..Len(loginAudit) |->
                        IF loginAudit[k].userId = user[u].id
                        THEN [loginAudit[k] EXCEPT !.userId = "null"]
                        ELSE loginAudit[k]]
    /\ UNCHANGED <<store, invSeq, saleIdGen, now, pc, payload, local, resp>>

\* ------------------------------------------------------- access control
\* the Authorization header of a request: absent or not "Bearer ...", a token
\* that jwt.verify rejects (forged, expired), or a verified token of a role
Tokens == {"none", "invalid", "VIEWER", "ADMIN"}

Unauthorized == [code |-> 401, error |-> "Unauthorized"]

\* auth: 401 when there is no token or jwt.verify throws, else req.user is set
\* and next() runs (NoResp)
auth(tok) == IF tok \in {"none", "invalid"} THEN Unauthorized ELSE NoResp

\* allowRoles that lets every verified user through
allowRolesAny(roles, tok) ==
  IF tok \in {"none", "invalid"} THEN Unauthorized ELSE NoResp

\* allowRoles(...roles): 401 without req.user, 403 when the role is not listed
allowRoles(roles, tok) ==
  IF tok \in {"none", "invalid"} THEN Unauthorized
  ELSE IF tok \notin roles THEN [code |-> 403, error |-> "Forbidden"]
  ELSE NoResp

\* viewerReadOnly: 401 without req.user, 403 for a VIEWER on a non-GET method
viewerReadOnly(tok, method) ==
  IF tok \in {"none", "invalid"} THEN Unauthorized
  ELSE IF tok = "VIEWER" /\ method # "GET" THEN [code |-> 403, error |-> "Read-only user"]
  ELSE NoResp

\* allow(...roles) of worker.js: 403 without a user or when the role is not listed
allow(roles, tok) ==
  IF tok \in {"none", "invalid"} \/ tok \notin roles
  THEN [code |-> 403, error |-> "Forbidden"]
  ELSE NoResp

Route(app, method, path, guard) ==
  [app |-> app, method |-> method, path |-> path, guard |-> guard]

\* the routes of index.js with the middleware after auth, and those without auth
IndexRoutes ==
  { Route("index", "GET", "/health", "public"),
    Route("index", "POST", "/auth/login", "public"),
    Route("index", "GET", "/products", "viewerReadOnly"),
    Route("index", "POST", "/products", "ADMIN"),
    Route("index", "PUT", "/products/:id", "ADMIN"),
    Route("index", "DELETE", "/products/:id", "ADMIN"),
    Route("index", "POST", "/products/:id/add-stock", "ADMIN"),
    Route("index", "GET", "/customers", "viewerReadOnly"),
    Route("index", "POST", "/customers", "ADMIN"),
    Route("index", "PUT", "/customers/:id", "ADMIN"),
    Route("index", "DELETE", "/customers/:id", "ADMIN"),
    Route("index", "POST", "/sales", "ADMIN"),
    Route("index", "GET", "/sales", "viewerReadOnly"),
    Route("index", "GET", "/sales/:id/detail", "viewerReadOnly"),
    Route("index", "POST", "/payments", "ADMIN"),
    Route("index", "GET", "/reports/sales", "viewerReadOnly"),
    Route("index", "GET", "/reports/stock-in", "viewerReadOnly"),
    Route("index", "GET", "/reports/total-sales", "viewerReadOnly"),
    Route("index", "GET", "/reports/profit", "viewerReadOnly"),
    Route("index", "GET", "/users", "ADMIN"),
    Route("index", "POST", "/users", "ADMIN"),
    Route("index", "PATCH", "/users/:id", "ADMIN"),
    Route("index", "DELETE", "/users/:id", "ADMIN"),
    Route("index", "GET", "/audits/login", "ADMIN") }

\* the routes of worker.js
WorkerRoutes ==
  { Route("worker", "GET", "/health", "public"),
    Route("worker", "POST", "/auth/login", "public"),
    Route("worker", "GET", "/products", "auth"),
    Route("worker", "GET", "/users", "ADMIN"),
    Route("worker", "POST", "/users", "ADMIN"),
    Route("worker", "GET", "/audits/login", "ADMIN") }

Routes == IndexRoutes \cup WorkerRoutes

\* the middleware chain of a route on a request with token tok: the answer of
\* the middleware that ends the request, or NoResp when the handler is reached
middleware(route, tok) ==
  IF route.guard = "public" THEN NoResp
  ELSE IF auth(tok) # NoResp THEN auth(tok)
  ELSE IF route.guard = "auth" THEN NoResp
  ELSE IF route.guard = "viewerReadOnly" THEN viewerReadOnly(tok, route.method)
  ELSE IF route.app = "worker" THEN allow({route.guard}, tok)
  ELSE allowRoles({route.guard}, tok)

\* a middleware answers the request: the handler is not called
reject(r, route, tok, answer) ==
  /\ Free(r)
  /\ pc' = [pc EXCEPT ![r] = "done"]
  /\ payload' = [payload EXCEPT ![r] =
       [kind |-> "rejected", method |-> route.method]]
  /\ local' = [local EXCEPT ![r] = NoLocal]
  /\ resp' = [resp EXCEPT ![r] = answer]
  /\ UNCHANGED <<store, invSeq, saleIdGen, now, user, loginAudit>>

\* the handler of a route that is not followed further here (login, customers,
\* users, audits, reports): it runs and answers
Served(r, route) ==
  /\ Free(r)
  /\ pc' = [pc EXCEPT ![r] = "done"]
  /\ payload' = [payload EXCEPT ![r] = [kind |-> "served"]]
  /\ local' = [local EXCEPT ![r] = NoLocal]
  /\ resp' = [resp EXCEPT ![r] = [code |-> 200, error |-> ""]]
  /\ UNCHANGED <<store, invSeq, saleIdGen, now, user, loginAudit>>

AccessSaleBodies ==
  [items : {<<[productId |-> "p1", qty |-> 1]>>}, amountPaid : {1}, method : {"Tunai"}]
AccessPayBodies == [saleId : {1}, amount : {1}, method : {"Transfer"}]

\* the handler of a route begins, up to its first await
Handler(r, route) ==
  CASE route.path = "/products" /\ route.method = "GET" -> ProductList(r)
    [] route.path = "/products" /\ route.method = "POST" ->
         Free(r) /\ ProductCreate({"p2"}, {0}, {MaxPrice})
    [] route.path = "/products/:id" /\ route.method = "PUT" ->
         Free(r) /\ ProductPut({"p1"}, PutPrice)
    [] route.path = "/products/:id" /\ route.method = "DELETE" -> ProductDelete(r)
    [] route.path = "/products/:id/add-stock" -> AddStockReceive(r)
    [] route.path = "/sales" /\ route.method = "POST" ->
         CreateSaleReceive(r, AccessSaleBodies)
    [] route.path = "/payments" -> PayReceive(r, AccessPayBodies)
    [] OTHER -> Served(r, route)

\* a request arrives on a route with a token: the middleware chain runs and
\* either answers or calls the handler
Request(r, route, tok) ==
  IF middleware(route, tok) = NoResp
  THEN Handler(r, route)
  ELSE reject(r, route, tok, middleware(route, tok))

\* ------------------------------------------------------- specifications
SaleSteps(r) ==
  \/ CreateSaleValidate(r)
  \/ nextInvoiceNoSeq(r)
  \/ SaleCreate(r)
  \/ SaleLine(r)
  \/ SaleInitialPayment(r)
  \/ SaleCommit(r)

\* Product creation and stock edits, one add-stock handler and one create-sale
\* handler, on a catalogue of one product.
LedgerSaleBodies ==
  [items : {<<[productId |-> "p1", qty |-> q]>> : q \in 1..MaxQty},
   amountPaid : {0, MaxPaid}, method : {"Tunai"}]

InitLedger == InitStore /\ product = [p \in Products |-> NoRow]

NextLedger ==
  \/ ProductCreate({"p1"}, 0..MaxStock, {MaxPrice})
  \/ ProductPut({"p1"}, PutStock)
  \/ AddStockReceive("r2")
  \/ AddStockFind("r2")
  \/ AddStockUpdate("r2")
  \/ AddStockCommit("r2")
  \/ CreateSaleReceive("r1", LedgerSaleBodies)
  \/ SaleSteps("r1")
  \/ \E r \in Reqs : TxFail(r)

SpecLedger == InitLedger /\ [][NextLedger]_vars

\* Concurrent create-sale and add-stock requests on one product, no
\* catalogue edits.
InitRace ==
  /\ InitStore
  /\ \E stock \in 0..MaxStock :
       product = [p \in Products |->
                    IF p = "p1"
                    THEN [exists |-> TRUE, stockQty |-> stock, sellPrice |-> MaxPrice,
                          isActive |-> TRUE]
                    ELSE NoRow]

NextRace ==
  \/ \E r \in Reqs : AddStockReceive(r)
  \/ \E r \in Reqs : AddStockFind(r)
  \/ \E r \in Reqs : AddStockUpdate(r)
  \/ \E r \in Reqs : AddStockCommit(r)
  \/ \E r \in Reqs : CreateSaleReceive(r, LedgerSaleBodies)
  \/ \E r \in Reqs : SaleSteps(r)
  \/ \E r \in Reqs : TxFail(r)

SpecRace == InitRace /\ [][NextRace]_vars

\* One create-sale handler over a catalogue of two products whose prices and
\* stock are edited meanwhile.
SaleBodies == [items : ItemLists, amountPaid : {0, MaxPaid}, method : {"Tunai"}]

InitSale ==
  /\ InitStore
  /\ \E s1, s2 \in 1..MaxStock, pr \in 0..MaxPrice :
       product = [p \in Products |->
                    [exists |-> TRUE, stockQty |-> IF p = "p1" THEN s1 ELSE s2,
                     sellPrice |-> IF p = "p1" THEN pr ELSE MaxPrice,
                     isActive |-> TRUE]]

NextSale ==
  \/ ProductPut(Products, PutPrice)
  \/ CreateSaleReceive("r1", SaleBodies)
  \/ SaleSteps("r1")
  \/ TxFail("r1")

SpecSale == InitSale /\ [][NextSale]_vars

\* Create-sale and add-payment requests over a catalogue of one product.
PaySaleBodies ==
  [items : {<<>>} \cup {<<[productId |-> "p1", qty |-> q]>> : q \in 1..MaxQty},
   amountPaid : 0..MaxPaid, method : {"Tunai"}]
PayBodies == [saleId : SaleIds, amount : 1..MaxPaid, method : {"Transfer"}]

InitPay ==
  /\ InitStore
  /\ \E price \in 0..MaxPrice :
       product = [p \in Products |->
                    IF p = "p1"
                    THEN [exists |-> TRUE, stockQty |-> MaxStock, sellPrice |-> price,
                          isActive |-> TRUE]
                    ELSE NoRow]

NextPay ==
  \/ \E r \in Reqs : CreateSaleReceive(r, PaySaleBodies)
  \/ \E r \in Reqs : SaleSteps(r)
  \/ \E r \in Reqs : PayReceive(r, PayBodies)
  \/ \E r \in Reqs : PayCheck(r)
  \/ \E r \in Reqs : PayWrite(r)
  \/ \E r \in Reqs : PayCommit(r)
  \/ \E r \in Reqs : TxFail(r)

SpecPay == InitPay /\ [][NextPay]_vars

\* Create-sale requests and the invoice sequence while the month changes.
InvoiceSaleBodies ==
  [items : {<<[productId |-> "p1", qty |-> 1]>>}, amountPaid : {0, MaxPaid},
   method : {"Tunai"}]

Init ==
  /\ InitStore
  /\ product = [p \in Products |->
                  IF p = "p1"
                  THEN [exists |-> TRUE, stockQty |-> MaxStock, sellPrice |-> MaxPrice,
                        isActive |-> TRUE]
                  ELSE NoRow]

Next ==
  \/ Tick
  \/ \E r \in Reqs : CreateSaleReceive(r, InvoiceSaleBodies)
  \/ \E r \in Reqs : SaleSteps(r)
  \/ \E r \in Reqs : TxFail(r)

Spec == Init /\ [][Next]_vars

\* The catalogue of one product is edited, soft-deleted and listed while one
\* handler creates sales and another adds stock and payments.
CatalogSaleBodies ==
  [items : {<<[productId |-> "p1", qty |-> 1]>>}, amountPaid : {0, 1},
   method : {"Tunai"}]
CatalogPutBodies == PutPrice \cup {b \in PutActive : b.value}

InitCatalog ==
  /\ InitStore
  /\ product = [p \in Products |->
                  IF p = "p1"
                  THEN [exists |-> TRUE, stockQty |-> MaxStock, sellPrice |-> MaxPrice,
                        isActive |-> TRUE]
                  ELSE NoRow]

NextCatalog ==
  \/ ProductDelete("r2")
  \/ ProductPut({"p1"}, CatalogPutBodies)
  \/ ProductList("r2")
  \/ AddStockReceive("r2")
  \/ AddStockFind("r2")
  \/ AddStockUpdate("r2")
  \/ AddStockCommit("r2")
  \/ CreateSaleReceive("r1", CatalogSaleBodies)
  \/ SaleSteps("r1")
  \/ PayReceive("r2", PayBodies)
  \/ PayCheck("r2")
  \/ PayWrite("r2")
  \/ PayCommit("r2")
  \/ \E r \in Reqs : TxFail(r)

SpecCatalog == InitCatalog /\ [][NextCatalog]_vars

\* Two products are soft-deleted, reactivated and listed while one handler
\* creates sales of one line.
ListingSaleBodies ==
  [items : {<<[productId |-> p, qty |-> 1]>> : p \in Products},
   amountPaid : {0, MaxPaid}, method : {"Tunai", "QRIS"}]

InitListing ==
  /\ InitStore
  /\ product = [p \in Products |->
                  [exists |-> TRUE, stockQty |-> MaxStock, sellPrice |-> MaxPrice,
                   isActive |-> TRUE]]

NextListing ==
  \/ \E r \in Reqs : ProductDelete(r)
  \/ ProductPut(Products, {b \in PutActive : b.value})
  \/ ProductList("r2")
  \/ CreateSaleReceive("r1", ListingSaleBodies)
  \/ SaleSteps("r1")
  \/ TxFail("r1")

SpecListing == InitListing /\ [][NextListing]_vars

\* Requests with every kind of token on every route, handled one at a time.
\* The store at the start: one product, stocked once and sold once on credit.
InitAccess ==
  /\ product = [p \in Products |->
                  IF p = "p1"
                  THEN [exists |-> TRUE, stockQty |-> 1, sellPrice |-> MaxPrice,
                        isActive |-> TRUE]
                  ELSE NoRow]
  /\ sale = <<[id |-> 1, invoiceNo |-> invoiceNoOf([year |-> 2025, month |-> 12], 1),
               grandTotal |-> MaxPrice, amountPaid |-> 0,
               paymentStatus |-> calcStatus(0, MaxPrice)]>>
  /\ saleItem = <<[saleId |-> 1, productId |-> "p1", qty |-> 1,
                   unitPrice |-> MaxPrice, lineTotal |-> MaxPrice]>>
  /\ payment = <<>>
  /\ stockMovement =
       <<[productId |-> "p1", type |-> "IN", qty |-> 2, reason |-> "StockIn", refId |-> 0],
         [productId |-> "p1", type |-> "OUT", qty |-> 1, reason |-> "Sale", refId |-> 1]>>
  /\ invSeq = [exists |-> TRUE, last |-> 1]
  /\ saleIdGen = 1
  /\ now = [year |-> 2025, month |-> 12, ticks |-> 0]
  /\ user = InitUsers
  /\ loginAudit = <<>>
  /\ pc = [r \in Reqs |-> "idle"]
  /\ payload = [r \in Reqs |-> Idle]
  /\ local = [r \in Reqs |-> NoLocal]
  /\ resp = [r \in Reqs |-> NoResp]

NextAccess ==
  \/ \E route \in Routes, tok \in Tokens : Request("r1", route, tok)
  \/ AddStockFind("r1")
  \/ AddStockUpdate("r1")
  \/ AddStockCommit("r1")
  \/ SaleSteps("r1")
  \/ PayCheck("r1")
  \/ PayWrite("r1")
  \/ PayCommit("r1")

SpecAccess == InitAccess /\ [][NextAccess]_vars

\* One handler creates sales while another adds payments, one after the other.
InitPaySeq == InitPay

NextPaySeq ==
  \/ CreateSaleReceive("r1", PaySaleBodies)
  \/ SaleSteps("r1")
  \/ PayReceive("r2", PayBodies)
  \/ PayCheck("r2")
  \/ PayWrite("r2")
  \/ PayCommit("r2")
  \/ \E r \in Reqs : TxFail(r)

SpecPaySeq == InitPaySeq /\ [][NextPaySeq]_vars

\* Sales are created and paid while the list of sales is read.
InitSales == InitPaySeq

NextSales ==
  \/ CreateSaleReceive("r1", PaySaleBodies)
  \/ SaleSteps("r1")
  \/ PayReceive("r2", PayBodies)
  \/ PayCheck("r2")
  \/ PayWrite("r2")
  \/ PayCommit("r2")
  \/ SaleList("r2")
  \/ \E r \in Reqs : TxFail(r)

SpecSales == InitSales /\ [][NextSales]_vars

\* Two handlers create sales whose lines name the two products in either
\* order. Every step of a request is taken once it stays possible, a step that
\* waits for a lock once it is possible again and again, and the database
\* ends every deadlock.
DeadlockSaleBodies ==
  [items : {<<[productId |-> "p1", qty |-> 1], [productId |-> "p2", qty |-> 1]>>,
            <<[productId |-> "p2", qty |-> 1], [productId |-> "p1", qty |-> 1]>>},
   amountPaid : {0, 1}, method : {"Tunai"}]

\* the store after stock was added to both products and one sale (numbered 0
\* here) was committed, which created the invoice sequence
InitDeadlock ==
  /\ product = [p \in Products |->
                  [exists |-> TRUE, stockQty |-> 2, sellPrice |-> MaxPrice,
                   isActive |-> TRUE]]
  /\ sale = <<[id |-> 0, invoiceNo |-> invoiceNoOf([year |-> 2025, month |-> 12], 1),
               grandTotal |-> MaxPrice, amountPaid |-> 0,
               paymentStatus |-> calcStatus(0, MaxPrice)]>>
  /\ saleItem = <<[saleId |-> 0, productId |-> "p1", qty |-> 1,
                   unitPrice |-> MaxPrice, lineTotal |-> MaxPrice]>>
  /\ payment = <<>>
  /\ stockMovement =
       <<[productId |-> "p1", type |-> "IN", qty |-> 2, reason |-> "StockIn", refId |-> 0],
         [productId |-> "p2", type |-> "IN", qty |-> 2, reason |-> "StockIn", refId |-> 0],
         [productId |-> "p1", type |-> "OUT", qty |-> 1, reason |-> "Sale", refId |-> 0],
         [productId |-> "p1", type |-> "IN", qty |-> 1, reason |-> "StockIn", refId |-> 0]>>
  /\ invSeq = [exists |-> TRUE, last |-> 1]
  /\ saleIdGen = 0
  /\ now = [year |-> 2025, month |-> 12, ticks |-> 0]
  /\ user = InitUsers
  /\ loginAudit = <<>>
  /\ pc = [r \in Reqs |-> "idle"]
  /\ payload = [r \in Reqs |-> Idle]
  /\ local = [r \in Reqs |-> NoLocal]
  /\ resp = [r \in Reqs |-> NoResp]

NextDeadlock ==
  \/ \E r \in Reqs :
       /\ saleIdGen + Cardinality({o \in Reqs : pc[o] = "sale_read"}) < MaxSeq
       /\ CreateSaleReceive(r, DeadlockSaleBodies)
  \/ \E r \in Reqs : SaleSteps(r)
  \/ \E r \in Reqs : DeadlockAbort(r)
  \/ \E r \in Reqs : TxFail(r)

FairDeadlock ==
  \A r \in Reqs :
    /\ WF_vars(CreateSaleValidate(r))
    /\ SF_vars(nextInvoiceNoSeq(r))
    /\ SF_vars(SaleCreate(r))
    /\ SF_vars(SaleLine(r))
    /\ WF_vars(SaleInitialPayment(r))
    /\ WF_vars(SaleCommit(r))
    /\ WF_vars(DeadlockAbort(r))

SpecDeadlock == InitDeadlock /\ [][NextDeadlock]_vars /\ FairDeadlock

\* Login requests on both servers while users are deleted.
InitLogin == InitCatalog

NextLogin ==
  \/ \E r \in Reqs : LoginReceive(r)
  \/ \E r \in Reqs : LoginFind(r)
  \/ \E r \in Reqs : LoginAuditWrite(r)
  \/ \E r \in Reqs : LoginAuditFail(r)
  \/ UserDelete

SpecLogin == InitLogin /\ [][NextLogin]_vars

\* ------------------------------------------------------------ properties
\* the request of handler r takes a step
stepOf(r) == pc'[r] # pc[r] \/ local'[r] # local[r]

\* sum of qty over the StockMovement rows of product p of the given type
movedQty(p, type) ==
  SumSeq([k \in 1..Len(stockMovement) |->
            IF stockMovement[k].productId = p /\ stockMovement[k].type = type
            THEN stockMovement[k].qty ELSE 0])

\* C1: under any interleaving of create-sale and add-stock requests no
\* product's stockQty is ever negative.
C1_StockNeverNegative ==
  \A p \in Products : product[p].exists => product[p].stockQty >= 0

\* C2: every product's stockQty equals the sum of its IN movements minus the
\* sum of its OUT movements.
C2_StockEqualsLedger ==
  \A p \in Products :
    product[p].exists => product[p].stockQty = movedQty(p, "IN") - movedQty(p, "OUT")

\* C3: every sale's amountPaid equals the sum of the amounts of its Payment
\* rows, overlapping add-payment requests included.
C3_AmountPaidEqualsPayments ==
  \A k \in 1..Len(sale) : sale[k].amountPaid = paidOf(sale[k].id, payment)

\* C4 as stated: Paid iff amountPaid >= grandTotal, Partial iff
\* 0 < amountPaid < grandTotal, Unpaid iff amountPaid = 0.
C4_StatusAsStated ==
  \A k \in 1..Len(sale) :
    LET s == sale[k]
    IN /\ s.paymentStatus = "Lunas" <=> s.amountPaid >= s.grandTotal
       /\ s.paymentStatus = "Sebagian" <=> (0 < s.amountPaid /\ s.amountPaid < s.grandTotal)
       /\ s.paymentStatus = "Piutang" <=> s.amountPaid = 0

\* C4 amended: Paid iff amountPaid >= grandTotal, Partial iff
\* 0 < amountPaid < grandTotal, Unpaid iff amountPaid = 0 < grandTotal; a sale
\* whose grandTotal is 0 is Paid.
C4_StatusThreeWay ==
  \A k \in 1..Len(sale) :
    LET s == sale[k]
    IN /\ s.paymentStatus \in {"Lunas", "Sebagian", "Piutang"}
       /\ s.paymentStatus = "Lunas" <=> s.amountPaid >= s.grandTotal
       /\ s.paymentStatus = "Sebagian" <=> (0 < s.amountPaid /\ s.amountPaid < s.grandTotal)
       /\ s.paymentStatus = "Piutang" <=> (s.amountPaid = 0 /\ 0 < s.grandTotal)

\* a sale of grandTotal 0 with nothing paid, a sale settled by an add-payment
C4_Witness ==
  /\ \E k \in 1..Len(sale) : sale[k].grandTotal = 0 /\ sale[k].amountPaid = 0
  /\ \E k \in 1..Len(sale), j \in 1..Len(payment) :
       /\ payment[j].saleId = sale[k].id
       /\ payment[j].method = "Transfer"
       /\ sale[k].paymentStatus = "Lunas"

\* C5: no two committed sales share an invoiceNo, and no create-sale request
\* is answered 409.
C5_InvoiceUnique ==
  /\ \A i, j \in 1..Len(sale) : i # j => sale[i].invoiceNo # sale[j].invoiceNo
  /\ \A r \in Reqs : resp[r].code # 409

\* two sales committed in the same month
C5_Witness ==
  \E i, j \in 1..Len(sale) :
    /\ i # j
    /\ SubSeq(sale[i].invoiceNo, 1, 11) = SubSeq(sale[j].invoiceNo, 1, 11)

\* the tables hold a row written for the sale id sid
rowsOfSale(sid, sales, items, pays, moves) ==
  \/ \E k \in 1..Len(sales) : sales[k].id = sid
  \/ \E k \in 1..Len(items) : items[k].saleId = sid
  \/ \E k \in 1..Len(pays) : pays[k].saleId = sid
  \/ \E k \in 1..Len(moves) : moves[k].refId = sid

\* C6: create-sale is all-or-nothing: no step of a create-sale request other
\* than its commit changes the store, and when the request fails the store
\* holds no Sale, SaleItem, Payment or StockMovement row of it.
C6_SaleAllOrNothing ==
  [][\A r \in Reqs :
       (stepOf(r) /\ pc[r] \in {"sale_read"} \cup SalePcs
                  /\ ~(pc'[r] = "done" /\ resp'[r].code = 200))
       => /\ store' = store
          /\ (pc'[r] = "done" /\ pc[r] \in SalePcs)
               => ~rowsOfSale(local[r].saleId, sale', saleItem', payment',
                              stockMovement')]_vars

\* a create-sale transaction has failed, and one has committed with a payment
C6_Witness ==
  /\ \E r \in Reqs : /\ pc[r] = "done" /\ payload[r].kind = "sale"
                     /\ resp[r].error = "transaction failed"
  /\ Len(sale) > 0 /\ Len(payment) > 0

\* C7: an add-payment whose amount exceeds due = grandTotal - sum of the
\* sale's Payment rows, as the handler reads them, is answered 400, appends no
\* Payment row and leaves the sale unchanged.
C7_OverpaymentRejected ==
  [][\A r \in Reqs :
       (/\ pc[r] = "pay_read" /\ pc'[r] # "pay_read"
        /\ \E k \in 1..Len(sale) :
             /\ sale[k].id = payload[r].saleId
             /\ payload[r].amount > sale[k].grandTotal - paidOf(sale[k].id, payment))
       => /\ pc'[r] = "done"
          /\ resp'[r] = [code |-> 400, error |-> "Nominal melebihi sisa tagihan"]
          /\ store' = store]_vars

\* an add-payment was rejected for a sale that is partly paid
C7_Witness ==
  /\ \E r \in Reqs : /\ pc[r] = "done" /\ payload[r].kind = "payment"
                     /\ resp[r].error = "Nominal melebihi sisa tagihan"
  /\ \E k \in 1..Len(sale) :
       /\ 0 < paidOf(sale[k].id, payment)
       /\ paidOf(sale[k].id, payment) < sale[k].grandTotal

statusRank(st) == CASE st = "Piutang" -> 0 [] st = "Sebagian" -> 1 [] st = "Lunas" -> 2

\* C8: a sale's amountPaid never decreases and its paymentStatus never
\* regresses.
C8_NoRegress ==
  [][\A k \in 1..Len(sale) :
       /\ sale'[k].amountPaid >= sale[k].amountPaid
       /\ statusRank(sale'[k].paymentStatus) >= statusRank(sale[k].paymentStatus)]_vars

\* the create-sale request of r names, in some line, an existing product with
\* a qty above its stockQty
asksTooMuch(r) ==
  \E k \in 1..Len(payload[r].items) :
    LET i == payload[r].items[k]
    IN product[i.productId].exists /\ i.qty > product[i.productId].stockQty

itemsOf(sid, items) == SelectSeq(items, LAMBDA i : i.saleId = sid)

\* C10: for an accepted create-sale request every line's unitPrice is the
\* sellPrice the store holds for its product when the handler reads it, its
\* lineTotal is qty * unitPrice, the grandTotal is the sum of the lineTotals,
\* and the committed Sale and SaleItem rows carry exactly these values.
C10_PricesAndTotals ==
  [][\A r \in Reqs :
       /\ (pc[r] = "sale_read" /\ pc'[r] = "sale_seq")
          => /\ Len(local'[r].calcItems) = Len(payload[r].items)
             /\ \A k \in 1..Len(payload[r].items) :
                  LET c == local'[r].calcItems[k]
                  IN /\ c.productId = payload[r].items[k].productId
                     /\ c.qty = payload[r].items[k].qty
                     /\ c.unitPrice = product[c.productId].sellPrice
       /\ (pc[r] \in SalePcs /\ pc'[r] = "done" /\ resp'[r].code = 200)
          => LET sid == local[r].saleId
                 its == itemsOf(sid, saleItem')
                 s == saleRow(sid, sale')
             IN /\ Len(its) = Len(local[r].calcItems)
                /\ \A k \in 1..Len(its) :
                     /\ its[k].productId = local[r].calcItems[k].productId
                     /\ its[k].qty = local[r].calcItems[k].qty
                     /\ its[k].unitPrice = local[r].calcItems[k].unitPrice
                     /\ its[k].lineTotal = its[k].qty * its[k].unitPrice
                /\ s.grandTotal = SumSeq([k \in 1..Len(its) |-> its[k].lineTotal])]_vars

\* a committed sale of two lines with different line totals
C10_Witness ==
  \E k \in 1..Len(sale) :
    LET its == itemsOf(sale[k].id, saleItem)
    IN /\ Len(its) = 2
       /\ its[1].lineTotal # its[2].lineTotal
       /\ its[1].lineTotal > 0 /\ its[2].lineTotal > 0
       /\ sale[k].grandTotal = its[1].lineTotal + its[2].lineTotal

\* the create-sale request of r names, in some line, a soft-deleted product
namesInactive(r) ==
  \E k \in 1..Len(payload[r].items) :
    LET i == payload[r].items[k]
    IN product[i.productId].exists /\ ~product[i.productId].isActive

\* C11: a create-sale request that names a soft-deleted product fails with the
\* product-not-found error and changes no state.
C11_InactiveNotSold ==
  [][\A r \in Reqs :
       (pc[r] = "sale_read" /\ pc'[r] # "sale_read" /\ namesInactive(r))
       => /\ pc'[r] = "done"
          /\ resp'[r] = [code |-> 400, error |-> "Produk tidak ditemukan."]
          /\ store' = store]_vars

\* the request changed nothing outside its own slot
noEffect == UNCHANGED <<store, invSeq, saleIdGen, now, user, loginAudit>>

\* r's request was answered with the status code by a step that changed
\* nothing else
refused(r, code) == pc'[r] = "done" /\ resp'[r].code = code /\ noEffect

\* C12: a request without a valid bearer token on an authenticated route is
\* answered 401 and changes no state; a non-GET request with a VIEWER token is
\* answered 403 and changes no state; GET /users and GET /audits/login are
\* answered 403 for a VIEWER.
C12_AccessControl ==
  [][\A r \in Reqs :
       (Free(r) /\ \A o \in Reqs \ {r} : <<pc[o], resp[o]>> = <<pc'[o], resp'[o]>>)
       => /\ \/ refused(r, 401)
             \/ \A route \in Routes, tok \in {"none", "invalid"} :
                  route.guard # "public" => ~Request(r, route, tok)
          /\ \/ refused(r, 403)
             \/ \A route \in Routes :
                  (/\ route.guard # "public"
                   /\ \/ route.method # "GET"
                      \/ route.path \in {"/users", "/audits/login"})
                  => ~Request(r, route, "VIEWER")]_vars

\* a VIEWER was refused a write after an ADMIN had sold and taken a payment
C12_Witness ==
  /\ \E r \in Reqs : /\ pc[r] = "done" /\ resp[r].code = 403
                     /\ payload[r] = [kind |-> "rejected", method |-> "POST"]
  /\ Len(sale) > 1 /\ Len(payment) > 0

\* C13: an accepted add-payment of amount a on a sale whose Payment rows sum to
\* paid appends exactly one Payment row of amount a and sets the sale's
\* amountPaid to paid + a and its status to Paid if paid + a >= grandTotal,
\* else to Partial; so when add-payments do not overlap, a sale whose payments
\* sum to its grandTotal has amountPaid = grandTotal and is Paid.
C13_PaymentApplied ==
  /\ [][\A r \in Reqs :
          (pc[r] = "pay_commit" /\ pc'[r] = "done" /\ resp'[r].code = 200)
          => LET sid == payload[r].saleId
                 a == payload[r].amount
                 paid == paidOf(sid, payment)
             IN /\ payment' = Append(payment, [saleId |-> sid, amount |-> a,
                                               method |-> payload[r].method])
                /\ Len(sale') = Len(sale)
                /\ \A k \in 1..Len(sale) :
                     sale'[k] =
                       IF sale[k].id = sid
                       THEN [sale[k] EXCEPT
                               !.amountPaid = paid + a,
                               !.paymentStatus = IF paid + a >= sale[k].grandTotal
                                                 THEN "Lunas" ELSE "Sebagian"]
                       ELSE sale[k]
                /\ UNCHANGED <<product, saleItem, stockMovement>>]_vars
  /\ [](\A k \in 1..Len(sale) :
          paidOf(sale[k].id, payment) = sale[k].grandTotal
          => sale[k].amountPaid = sale[k].grandTotal /\ sale[k].paymentStatus = "Lunas")

\* a sale settled by two add-payments
C13_Witness ==
  \E k \in 1..Len(sale) :
    /\ sale[k].grandTotal = 2 /\ sale[k].amountPaid = 2 /\ sale[k].paymentStatus = "Lunas"
    /\ Len(SelectSeq(payment, LAMBDA q : q.saleId = sale[k].id /\ q.method = "Transfer")) = 2

\* stockQty of p minus (sum of its IN movements minus sum of its OUT movements)
ledgerGap(p, products, moves) ==
  products[p].stockQty
    - SumSeq([k \in 1..Len(moves) |->
                IF moves[k].productId # p THEN 0
                ELSE IF moves[k].type = "IN" THEN moves[k].qty ELSE 0 - moves[k].qty])

\* C14: no step of an add-stock or create-sale request, committing or
\* aborting, changes stockQty - (IN - OUT) of any product; StockMovement is
\* only appended to, and a step changes a product's stockQty exactly when it
\* appends one movement row of that product, of the same magnitude and
\* direction.
C14_NoTornWrite ==
  [][/\ Len(stockMovement') >= Len(stockMovement)
     /\ SubSeq(stockMovement', 1, Len(stockMovement)) = stockMovement
     /\ \A p \in Products :
          product[p].exists
          => LET delta == product'[p].stockQty - product[p].stockQty
                 new == SelectSeq(SubSeq(stockMovement', Len(stockMovement) + 1,
                                         Len(stockMovement')),
                                  LAMBDA m : m.productId = p)
             IN /\ product'[p].exists
                /\ ledgerGap(p, product', stockMovement') = ledgerGap(p, product, stockMovement)
                /\ IF delta = 0 THEN new = <<>>
                   ELSE /\ Len(new) = 1
                        /\ new[1].type = IF delta > 0 THEN "IN" ELSE "OUT"
                        /\ new[1].qty = IF delta > 0 THEN delta ELSE 0 - delta]_vars

\* stock was added and sold, and a transaction was rolled back
C14_Witness ==
  /\ \E k \in 1..Len(stockMovement) : stockMovement[k].type = "IN"
  /\ \E k \in 1..Len(stockMovement) : stockMovement[k].type = "OUT"
  /\ \E r \in Reqs : pc[r] = "done" /\ resp[r].error = "transaction failed"

\* the step is a DELETE of an existing product by r: only isActive of that row
\* changes, and no SaleItem or StockMovement row is touched
deleteFrame(r) ==
  (ProductDelete(r) /\ resp'[r].code = 200)
  => /\ product' = [product EXCEPT ![payload'[r].productId].isActive = FALSE]
     /\ product'[payload'[r].productId].exists
     /\ UNCHANGED <<sale, saleItem, payment, stockMovement>>

\* C15 as stated: once a DELETE of a product has been answered, no later
\* GET /products lists it, and the DELETE leaves its row, stockQty and the
\* SaleItem and StockMovement rows unchanged.
C15_NeverListedAgain ==
  [][\A r \in Reqs :
       /\ deleteFrame(r)
       /\ \A o \in Reqs, p \in Products :
            (/\ pc[o] = "done" /\ resp[o].code = 200
             /\ payload[o] = [kind |-> "delete", productId |-> p]
             /\ ProductList(r))
            => p \notin resp'[r].list]_vars

\* C15 amended: GET /products lists no product whose isActive is false, which
\* is what DELETE sets; the DELETE leaves the row, its stockQty and the
\* SaleItem and StockMovement rows unchanged. (A later PUT with isActive true
\* makes the product listed again.)
C15_InactiveNotListed ==
  [][\A r \in Reqs :
       /\ deleteFrame(r)
       /\ ProductList(r)
          => \A p \in Products :
               (product[p].exists /\ ~product[p].isActive) => p \notin resp'[r].list]_vars

\* a sold product was soft-deleted and the listing made afterwards leaves it out
C15_Witness ==
  \E p \in Products :
    /\ product[p].exists /\ ~product[p].isActive
    /\ \E k \in 1..Len(saleItem) : saleItem[k].productId = p
    /\ \E k \in 1..Len(stockMovement) : stockMovement[k].productId = p
    /\ pc["r2"] = "done" /\ payload["r2"].kind = "list"
    /\ resp["r2"].list = Products \ {p}

saleCommits(r) == pc[r] \in SalePcs /\ pc'[r] = "done" /\ resp'[r].code = 200

\* C17: a create-sale request that commits with amountPaid > 0 appends exactly
\* one Payment row, of the new sale, with amount = amountPaid and the requested
\* method; one that commits with amountPaid = 0 appends none; no other step of
\* a create-sale request writes a Payment row.
C17_InitialPayment ==
  [][\A r \in Reqs :
       /\ saleCommits(r)
          => payment' = IF payload[r].amountPaid > 0
                        THEN Append(payment, [saleId |-> local[r].saleId,
                                              amount |-> payload[r].amountPaid,
                                              method |-> payload[r].method])
                        ELSE payment
       /\ (pc[r] \in {"sale_read"} \cup SalePcs /\ stepOf(r) /\ ~saleCommits(r))
          => payment' = payment]_vars

\* a sale committed with an initial payment by QRIS and one committed without
C17_Witness ==
  /\ \E k \in 1..Len(sale) :
       /\ sale[k].amountPaid = MaxPaid
       /\ SelectSeq(payment, LAMBDA q : q.saleId = sale[k].id)
            = <<[saleId |-> sale[k].id, amount |-> MaxPaid, method |-> "QRIS"]>>
  /\ \E k \in 1..Len(sale) :
       /\ sale[k].amountPaid = 0
       /\ SelectSeq(payment, LAMBDA q : q.saleId = sale[k].id) = <<>>

\* C18: a create-sale request that commits with n lines appends exactly n
\* StockMovement rows, one per line in order, of type OUT with the line's
\* productId and qty, reason "Sale" and refId the new sale's id, and lowers the
\* stockQty of each product it names by that line's qty and of no other.
C18_SaleMovements ==
  [][\A r \in Reqs :
       saleCommits(r)
       => LET items == payload[r].items
          IN /\ stockMovement' = stockMovement \o
                  [k \in 1..Len(items) |->
                     [productId |-> items[k].productId, type |-> "OUT",
                      qty |-> items[k].qty, reason |-> "Sale",
                      refId |-> local[r].saleId]]
             /\ \A k \in 1..Len(items) :
                  product'[items[k].productId].stockQty
                    = product[items[k].productId].stockQty - items[k].qty
             /\ \A p \in Products :
                  (\A k \in 1..Len(items) : items[k].productId # p)
                  => product'[p] = product[p]]_vars

\* a sale of two lines committed: one OUT row per line, of different qty
C18_Witness ==
  \E k \in 1..Len(sale) :
    LET out == SelectSeq(stockMovement, LAMBDA m : m.refId = sale[k].id)
    IN /\ Len(out) = 2
       /\ out[1].productId # out[2].productId
       /\ out[1].qty # out[2].qty
       /\ \A j \in 1..2 : out[j].type = "OUT" /\ out[j].reason = "Sale"

\* C19: an add-payment whose saleId names no sale is answered 404 with the
\* sale-not-found error, appends no Payment row and changes no sale.
C19_SaleNotFound ==
  [][\A r \in Reqs :
       (/\ pc[r] = "pay_read" /\ pc'[r] # "pay_read"
        /\ \A k \in 1..Len(sale) : sale[k].id # payload[r].saleId)
       => /\ pc'[r] = "done"
          /\ resp'[r] = [code |-> 404, error |-> "Sale not found"]
          /\ store' = store]_vars

\* an add-payment was answered 404 although another sale exists
C19_Witness ==
  /\ \E r \in Reqs : /\ pc[r] = "done" /\ payload[r].kind = "payment"
                     /\ resp[r] = [code |-> 404, error |-> "Sale not found"]
  /\ Len(sale) = 1 /\ payment = <<>>

\* C20: a create-sale request with an empty items list creates no Sale: every
\* committed sale has at least one SaleItem row.
C20_SaleHasItems ==
  \A k \in 1..Len(sale) : \E j \in 1..Len(saleItem) : saleItem[j].saleId = sale[k].id

\* C21: a create-sale request whose amountPaid exceeds the computed grandTotal
\* is not rejected for it: its validation passes on to the transaction with
\* the status Paid, the committed sale is Paid with the amountPaid of the
\* request, and no create-sale request is answered with the overpayment error.
C21_OverpaidAtCreation ==
  [][\A r \in Reqs :
       /\ (/\ pc[r] = "sale_read" /\ pc'[r] # "sale_read"
           /\ saleValidation(payload[r].items, product) = "ok"
           /\ payload[r].amountPaid
                > grandTotalOf(calcItems(payload[r].items, product)))
          => pc'[r] = "sale_seq" /\ local'[r].status = "Lunas"
       /\ (saleCommits(r) /\ payload[r].amountPaid > local[r].grandTotal)
          => /\ saleRow(local[r].saleId, sale').paymentStatus = "Lunas"
             /\ saleRow(local[r].saleId, sale').amountPaid = payload[r].amountPaid
       /\ (pc[r] \in {"sale_read"} \cup SalePcs /\ pc'[r] = "done")
          => resp'[r].error # "Nominal melebihi sisa tagihan"]_vars

\* a sale overpaid at creation is Paid, and an add-payment was refused as
\* overpayment
C21_Witness ==
  /\ \E k \in 1..Len(sale) :
       /\ 0 < sale[k].grandTotal /\ sale[k].grandTotal < sale[k].amountPaid
       /\ sale[k].paymentStatus = "Lunas"
  /\ \E r \in Reqs : /\ pc[r] = "done" /\ payload[r].kind = "payment"
                     /\ resp[r].error = "Nominal melebihi sisa tagihan"

\* the create-sale transaction of r has drawn its value from the sequence
holdsSeq(r) == pc[r] \in {"sale_create", "sale_lines", "sale_commit"}

\* C22: the value a create-sale request draws from the invoice sequence is
\* greater than every value drawn before, and a value drawn by a transaction
\* that aborts is never drawn again: a drawn value differs from the values
\* held by the other transactions in flight, and when a transaction that has
\* drawn a value ends, by commit or by abort, the sequence exists and has
\* moved to that value or beyond, so that nextval never returns it again.
C22_NoReuse ==
  [][\A r \in Reqs :
       /\ (pc[r] = "sale_seq" /\ pc'[r] = "sale_create")
          => /\ invSeq.exists => local'[r].seq > invSeq.last
             /\ \A o \in Reqs \ {r} : holdsSeq(o) => local'[r].seq > local[o].seq
       /\ (holdsSeq(r) /\ pc'[r] = "done")
          => invSeq'.exists /\ invSeq'.last >= local[r].seq]_vars

\* C23: a failure of the LoginAudit write does not change the outcome of the
\* login: whether the write succeeds or fails, the request is answered with a
\* token when the username names a user whose password matches, and with 401
\* otherwise.
C23_AuditBestEffort ==
  [][\A r \in Reqs :
       /\ (pc[r] = "login_find" /\ pc'[r] = "login_audit")
          => local'[r].ok = (/\ user[payload[r].username].exists
                             /\ user[payload[r].username].password = payload[r].password)
       /\ (pc[r] = "login_audit" /\ pc'[r] # "login_audit")
          => /\ pc'[r] = "done"
             /\ resp'[r] = IF local[r].ok
                           THEN [code |-> 200, error |-> "", token |-> local[r].role]
                           ELSE InvalidCredentials]_vars

\* a login got its token and another its 401 although no audit row was written
C23_Witness ==
  /\ loginAudit = <<>>
  /\ \E r \in Reqs : pc[r] = "done" /\ payload[r].kind = "login" /\ resp[r].code = 200
  /\ \E r \in Reqs : pc[r] = "done" /\ resp[r] = InvalidCredentials

\* C24: a login attempt that ends without a failure of its audit write has
\* appended exactly one LoginAudit row, and no step changes or removes a row
\* that LoginAudit already holds.
C24_AuditAppendOnly ==
  [][/\ Len(loginAudit') >= Len(loginAudit)
     /\ SubSeq(loginAudit', 1, Len(loginAudit)) = loginAudit
     /\ \A r \in Reqs :
          (pc[r] \in LoginPcs /\ pc'[r] = "done" /\ ~LoginAuditFail(r))
          => Len(loginAudit') = Len(loginAudit) + 1]_vars

\* the ids of the committed sales whose status is in S
withStatus(S) == {sale[k].id : k \in {j \in 1..Len(sale) : sale[j].paymentStatus \in S}}

\* C25: GET /sales?status=open answers exactly the sales that are Piutang
\* (unpaid) or Sebagian (partial), any other non-empty status exactly the sales
\* that are Lunas (paid), and no status all sales; the open and the non-open
\* lists are disjoint and together hold every sale.
C25_SaleListFilter ==
  [][\A r \in Reqs :
       (/\ Free(r) /\ pc'[r] = "done" /\ payload'[r].kind = "sales"
        /\ <<pc[r], payload[r], resp[r]>> # <<pc'[r], payload'[r], resp'[r]>>)
       => /\ resp'[r].code = 200
          /\ payload'[r].status = "open"
             => resp'[r].list = withStatus({"Piutang", "Sebagian"})
          /\ payload'[r].status \notin {"", "open"}
             => resp'[r].list = withStatus({"Lunas"})
          /\ payload'[r].status = ""
             => resp'[r].list = withStatus({"Piutang", "Sebagian", "Lunas"})
          /\ withStatus({"Piutang", "Sebagian"}) \cap withStatus({"Lunas"}) = {}
          /\ withStatus({"Piutang", "Sebagian"}) \cup withStatus({"Lunas"})
               = {sale[k].id : k \in 1..Len(sale)}]_vars

\* the open list was answered with a sale in it while another sale is paid
C25_Witness ==
  \E r \in Reqs :
    /\ pc[r] = "done" /\ payload[r].kind = "sales" /\ payload[r].status = "open"
    /\ resp[r].list # {}
    /\ resp[r].list = withStatus({"Piutang", "Sebagian"})
    /\ withStatus({"Lunas"}) # {}

\* C26: a create-sale request is answered with the product-not-found error
\* only if one of its lines names a productId that no Product row has; lines
\* that name the same existing product twice do not cause it.
C26_NotFoundOnlyIfMissing ==
  [][\A r \in Reqs :
       (/\ pc[r] = "sale_read" /\ pc'[r] = "done"
        /\ resp'[r].error = "Produk tidak ditemukan.")
       => \E k \in 1..Len(payload[r].items) :
            ~product[payload[r].items[k].productId].exists]_vars

\* what the create-sale request of the sale sid paid: the amount of its Payment
\* row of method Tunai (add-payment requests pay by Transfer here)
paidAtCreation(sid) ==
  SumSeq([k \in 1..Len(payment) |->
            IF payment[k].saleId = sid /\ payment[k].method = "Tunai"
            THEN payment[k].amount ELSE 0])

\* C27: for every sale created with amountPaid <= grandTotal the amounts of
\* its Payment rows never sum to more than its grandTotal, overlapping
\* add-payment requests included.
C27_PaymentsWithinTotal ==
  \A k \in 1..Len(sale) :
    paidAtCreation(sale[k].id) <= sale[k].grandTotal
    => paidOf(sale[k].id, payment) <= sale[k].grandTotal

\* the Payment rows of the sale sid
paymentsOf(sid, pays) == SelectSeq(pays, LAMBDA q : q.saleId = sid)

\* C28: when add-payment requests do not overlap, a request for a sale whose
\* Payment rows sum to its grandTotal or more is answered 400 (overpayment) and
\* writes nothing, and no step changes the Payment rows of such a sale.
C28_PaidStaysClosed ==
  [][/\ \A r \in Reqs :
          (/\ pc[r] = "pay_read" /\ pc'[r] # "pay_read"
           /\ \E k \in 1..Len(sale) :
                /\ sale[k].id = payload[r].saleId
                /\ paidOf(sale[k].id, payment) >= sale[k].grandTotal)
          => /\ pc'[r] = "done"
             /\ resp'[r] = [code |-> 400, error |-> "Nominal melebihi sisa tagihan"]
             /\ store' = store
     /\ \A k \in 1..Len(sale) :
          paidOf(sale[k].id, payment) >= sale[k].grandTotal
          => paymentsOf(sale[k].id, payment') = paymentsOf(sale[k].id, payment)]_vars

\* the only sale was settled by an add-payment, and a later one was refused
C28_Witness ==
  /\ Len(sale) = 1
  /\ paidOf(sale[1].id, payment) = sale[1].grandTotal
  /\ \E j \in 1..Len(payment) : payment[j].method = "Transfer"
  /\ pc["r2"] = "done" /\ payload["r2"].kind = "payment"
  /\ resp["r2"] = [code |-> 400, error |-> "Nominal melebihi sisa tagihan"]

\* C29: under fair scheduling every create-sale request ends, committed or
\* rolled back, also when two transactions update the same two products in
\* opposite line order.
C29_SaleEnds ==
  \A r \in Reqs : (pc[r] \in {"sale_read"} \cup SalePcs) ~> (pc[r] = "done")

\* each of the two transactions holds the lock the other one waits for
C29_Witness == waitsFor("r1", "r2") /\ waitsFor("r2", "r1")

====
